---- MODULE Spec2Model ----
(***************************************************************************)
(* Client-side session state machine of the virtual showroom:              *)
(* AuthProvider (contexts/AuthContext), the apiClient response             *)
(* interceptor, AuthGuard and the home page.                               *)
(*                                                                         *)
(* The identity provider (Firebase Authentication) and the backend are     *)
(* the environment: the provider completes or rejects signIn / signUp /    *)
(* signOut / resetPassword, notifies the onAuthStateChanged observer when  *)
(* the signed-in uid changes (and once after subscription), and never      *)
(* awaits the promise the async observer returns; the backend answers      *)
(* GET /auth/me with one of Outcomes.                                      *)
(***************************************************************************)
EXTENDS Integers, Sequences, FiniteSets, TLC

NULL == "null"
NONE == "none"

Identities == {"u1", "u2"}

\* Bounds of the model.
MaxNotifications == 3
MaxCalls == 1
MaxRefresh == 1
MaxReloads == 1
MaxMutations == 1
MaxProducts == 3
MaxVariants == 2

\* Answers to GET /auth/me as seen by apiClient: a profile, an empty body,
\* or a rejection (401, 5xx, an error payload with detail, ERR_NETWORK,
\* any other rejection such as a timeout or a failing getIdToken).
Outcomes == {"ok", "empty", "e401", "e5xx", "detail", "network", "other"}
FailureKinds == {"e401", "e5xx", "detail", "network", "other"}

Paths == {"/", "/login"}

VARIABLES
  state,         \* AuthState held by AuthProvider's useState
  currentUser,   \* auth.currentUser of the identity provider
  notifQueue,    \* notifications the provider has yet to deliver
  fetches,       \* profile fetches in flight
  calls,         \* signIn / signUp provider calls in flight
  location,      \* window.location
  navPending,    \* target of a started full-page navigation, or NULL
  view,          \* what the current page renders
  toast,         \* toast shown by the latest step, NONE when it showed none
  lastStep,      \* the latest step taken
  nNotif,        \* notifications handled by this AuthProvider instance
  lastNotified,  \* identity of the most recent notification
  lastResult,    \* result of the fetch started for that notification
  signedOut,     \* the null notification of a signOut was handled and no
                 \* notification carrying an identity has arrived since
  nCalls, nRefresh, nReloads,
  currentTenant,     \* TenantProvider: id of the current tenant, or NULL
  availableTenants,  \* TenantProvider: ids of the available tenants
  tenantIsLoading,   \* TenantProvider: isLoading
  savedTenantId,     \* localStorage item 'selectedTenantId', or NULL
  tenantStep,        \* the latest operation of TenantProvider
  savedBy,           \* profile on whose behalf switchTenant last wrote
                     \* the localStorage item, NONE when it never did
  cache,             \* query cache of the QueryClient, by query key
  server,            \* the backend's collections
  mutations,         \* collection mutations in flight
  notices,           \* toasts shown by the latest step on collections
  cacheStep,         \* the latest step taken on collections
  nMutations,
  router,            \* URL of the Next.js router and the latest routing step
  orderDate,         \* an order date, its display string and its parse
  showroom           \* VirtualShowroom: the collection and the selection

tenantVars == <<currentTenant, availableTenants, tenantIsLoading,
                savedTenantId, tenantStep, savedBy>>

cacheVars == <<cache, server, mutations, notices, cacheStep, nMutations>>

pageVars == <<router, orderDate, showroom>>

vars == <<state, currentUser, notifQueue, fetches, calls, location,
          navPending, view, toast, lastStep, nNotif, lastNotified,
          lastResult, signedOut, nCalls, nRefresh, nReloads, tenantVars,
          cacheVars, pageVars>>

ghost == <<nNotif, lastNotified, lastResult, signedOut>>

----------------------------------------------------------------------------
(* AuthProvider: state and its updates                                     *)

InitialState ==
  [user |-> NULL, firebaseUser |-> NULL, isLoading |-> TRUE,
   isAuthenticated |-> FALSE]

\* The backend's profile of an identity (response.data of GET /auth/me).
Profile(fb) == IF fb = "u1" THEN "p1" ELSE "p2"

\* fetchUserProfile: response.data on success, null on any rejection.
fetchUserProfile(fb, outcome) ==
  CASE outcome = "ok" -> Profile(fb)
    [] outcome = "empty" -> NULL
    [] OTHER -> NULL

\* A signed-in branch that drops the identity when no profile came back.
SignedInStateDropsIdentity(user, fb) ==
  [user |-> user, firebaseUser |-> IF user = NULL THEN NULL ELSE fb,
   isLoading |-> FALSE, isAuthenticated |-> (user # NULL)]

\* setState of the observer's signed-in branch.
SignedInState(user, fb) ==
  [user |-> user, firebaseUser |-> fb, isLoading |-> FALSE,
   isAuthenticated |-> (user # NULL)]

\* setState of the observer's signed-out branch.
SignedOutState ==
  [user |-> NULL, firebaseUser |-> NULL, isLoading |-> FALSE,
   isAuthenticated |-> FALSE]

\* A start of signIn / signUp that also clears the authenticated flag.
StartLoadingClearsAuth(prev) ==
  [prev EXCEPT !.isLoading = TRUE, !.isAuthenticated = FALSE]

\* setState(prev => ({ ...prev, isLoading: true })) of signIn and signUp.
StartLoading(prev) == [prev EXCEPT !.isLoading = TRUE]

\* setState(prev => ({ ...prev, isLoading: false })) of signUp's catch.
StopLoading(prev) == [prev EXCEPT !.isLoading = FALSE]

\* setState(prev => ({ ...prev, user })) of refreshUser.
RefreshedState(prev, user) == [prev EXCEPT !.user = user]

----------------------------------------------------------------------------
(* apiClient response interceptor                                          *)

\* Toast shown by the interceptor's rejection handler.
InterceptorToast(outcome) ==
  CASE outcome = "e401" -> NONE
    [] outcome = "e5xx" -> "Server error"
    [] outcome = "detail" -> "detail"
    [] outcome = "network" -> "Cannot connect to server"
    [] OTHER -> NONE

\* An interceptor that leaves the page where it is on a 401.
InterceptorNavNever(outcome, pending) == pending

\* window.location.href assigned by the interceptor's rejection handler.
InterceptorNav(outcome, pending) ==
  IF outcome = "e401" THEN "/login" ELSE pending

----------------------------------------------------------------------------
(* Route guard and pages                                                   *)

\* A guard that tests isAuthenticated before isLoading.
AuthGuardAuthFirst(isLoading, isAuthenticated) ==
  IF isAuthenticated THEN "children"
  ELSE IF isLoading THEN "fallback"
  ELSE "nothing"

AuthGuard(isLoading, isAuthenticated) ==
  IF isLoading THEN "fallback"
  ELSE IF ~isAuthenticated THEN "nothing"
  ELSE "children"

\* HomePage wraps its content in AuthGuard and calls no hook.
HomePage(s) == AuthGuard(s.isLoading, s.isAuthenticated)

Page(path, s) == IF path = "/" THEN HomePage(s) ELSE "loginForm"

----------------------------------------------------------------------------
(* TenantProvider                                                          *)

\* Values the localStorage item can hold when the application starts:
\* nothing, the id of the mock tenant, or an id that is no longer available.
TenantIds == {"1", "2"}

\* mockTenants of fetchAvailableTenants (tenants are named by their id).
mockTenants == <<"1">>

\* An Array.find that returns the id it was asked for without looking.
findAnything(tenants, tenantId) == tenantId

\* tenants.find(t => t.id === tenantId): the tenant, or NULL (undefined).
find(tenants, tenantId) ==
  IF \E i \in DOMAIN tenants : tenants[i] = tenantId THEN tenantId ELSE NULL

\* A default tenant that trusts the saved id without a fallback.
defaultTenantNoFallback(saved, tenants) ==
  IF saved # NULL THEN find(tenants, saved) ELSE tenants[1]

\* savedTenantId ? tenants.find(...) || tenants[0] : tenants[0]
defaultTenant(saved, tenants) ==
  IF saved # NULL
    THEN (IF find(tenants, saved) # NULL THEN find(tenants, saved)
                                         ELSE tenants[1])
    ELSE tenants[1]

\* An effect condition that looks at isAuthenticated only.
ShouldFetchTenantsAuthOnly(s) == s.isAuthenticated

\* The condition of TenantProvider's effect: isAuthenticated && user.
ShouldFetchTenants(s) == s.isAuthenticated /\ s.user # NULL

TenantStep(op, arg, from) == [op |-> op, arg |-> arg, from |-> from]

\* fetchAvailableTenants: it awaits nothing, so it runs to completion
\* inside the effect, isLoading going to true and back to false.
fetchAvailableTenants ==
  /\ availableTenants' = mockTenants
  /\ currentTenant' = defaultTenant(savedTenantId, mockTenants)
  /\ tenantIsLoading' = FALSE
  /\ tenantStep' = TenantStep("fetched", savedTenantId,
        IF savedTenantId # NULL /\ find(mockTenants, savedTenantId) # NULL
          THEN "saved" ELSE "first")
  /\ UNCHANGED <<savedTenantId, savedBy>>

\* TenantProvider's effect on [isAuthenticated, user]. It runs when either
\* dependency changed; fresh says that user is a newly fetched object.
TenantEffect(fresh) ==
  IF \/ state'.isAuthenticated # state.isAuthenticated
     \/ state'.user # state.user
     \/ (fresh /\ state'.user # NULL)
    THEN IF ShouldFetchTenants(state')
           THEN fetchAvailableTenants
           ELSE /\ currentTenant' = NULL
                /\ availableTenants' = <<>>
                /\ tenantStep' = TenantStep("reset", NULL, NONE)
                /\ UNCHANGED <<tenantIsLoading, savedTenantId, savedBy>>
    ELSE UNCHANGED tenantVars

----------------------------------------------------------------------------
(* Collections: query keys, cache operations, hooks                        *)

Ids == {"c1"}

\* Parameter objects of useCollections: the default {} and the one of
\* CollectionManager.
ListParams == {"{}", "{limit:100}"}

\* Arguments of useFeaturedCollections.
Limits == {"limit=3", "limit=6"}

\* The slug of each collection, as the backend stores it.
slugOf == [i \in Ids |-> IF i = "c1" THEN "s1" ELSE "s2"]

Slugs == {slugOf[i] : i \in Ids}

\* collectionsKeys
all == <<"collections">>

lists == all \o <<"list">>

list(params) == lists \o <<params>>

details == all \o <<"detail">>

detail(id) == details \o <<id>>

detailBySlug(slug) == details \o <<"slug", slug>>

featured == all \o <<"featured">>

QueryKeys ==
  {list(p) : p \in ListParams} \cup {detail(i) : i \in Ids} \cup {featured}
    \cup {detailBySlug(sl) : sl \in Slugs}

NoData == [kind |-> NONE]

NoEntry ==
  [present |-> FALSE, data |-> NoData, invalidated |-> FALSE,
   fetching |-> FALSE]

EmptyCache == [k \in QueryKeys |-> NoEntry]

\* Partial query-key matching of invalidateQueries and removeQueries.
Matches(filter, key) ==
  Len(filter) <= Len(key) /\ SubSeq(key, 1, Len(filter)) = filter

invalidateQueries(c, filter) ==
  [k \in DOMAIN c |->
     IF Matches(filter, k) /\ c[k].present
       THEN [c[k] EXCEPT !.invalidated = TRUE] ELSE c[k]]

setQueryData(c, key, data) ==
  [c EXCEPT ![key] = [@ EXCEPT !.present = TRUE, !.data = data,
                               !.invalidated = FALSE]]

removeQueries(c, filter) ==
  [k \in DOMAIN c |-> IF Matches(filter, k) THEN NoEntry ELSE c[k]]

\* refetch() of a query result: the query is fetched whatever its age.
refetch(c, key) == [c EXCEPT ![key].fetching = TRUE]

\* The QueryClient's defaults: an entry with data is served without a
\* request until it is invalidated, and a failed mutation is not retried.
IsStale(entry) == entry.invalidated

RetryMutation == FALSE

\* The backend's representation of a collection.
Collection(id, published) ==
  [kind |-> "collection", id |-> id, is_published |-> published]

\* Rejections of a collections request: 401, 422 with an errors array
\* naming the offending fields, 5xx, another status with a detail string,
\* no response at all (ERR_NETWORK), a timeout (ECONNABORTED).
Rejection(status, errors, hasDetail, code) ==
  [status |-> status, errors |-> errors, detail |-> hasDetail, code |-> code]

Rejections ==
  { Rejection(401, <<>>, FALSE, NONE),
    Rejection(422, <<"season">>, FALSE, NONE),
    Rejection(422, <<"season", "year">>, FALSE, NONE),
    Rejection(500, <<>>, FALSE, NONE),
    Rejection(404, <<>>, TRUE, NONE),
    Rejection(0, <<>>, FALSE, "ERR_NETWORK"),
    Rejection(0, <<>>, FALSE, "ECONNABORTED") }

\* Rejections of a read: it sends no body, so none is a validation failure.
QueryRejections == {r \in Rejections : r.status # 422}

\* The branch of the interceptor's rejection handler an error takes.
InterceptorBranch(err) ==
  IF err.status = 401 THEN "e401"
  ELSE IF err.status >= 500 THEN "e5xx"
  ELSE IF err.detail THEN "detail"
  ELSE IF err.code = "ERR_NETWORK" THEN "network"
  ELSE "other"

Notice(from, kind, what) == [from |-> from, kind |-> kind, what |-> what]

\* Toasts the interceptor shows for a rejection.
InterceptorNotices(err) ==
  IF InterceptorToast(InterceptorBranch(err)) = NONE THEN <<>>
  ELSE <<Notice("interceptor", InterceptorToast(InterceptorBranch(err)), NONE)>>

\* error.response?.data?.detail || 'Failed to ...'
DetailOrGeneric(op, err) ==
  IF err.detail THEN <<Notice("hook", "detail", NONE)>>
  ELSE <<Notice("hook", "generic", op)>>

\* An onError of useCreateCollection without the 422 branch.
createOnErrorGenericOnly(err) == DetailOrGeneric("create", err)

\* onError of useCreateCollection.
createOnError(err) ==
  IF err.status = 422
    THEN (IF err.errors # <<>>
            THEN [i \in DOMAIN err.errors |->
                    Notice("hook", "field", err.errors[i])]
            ELSE <<Notice("hook", "validation", NONE)>>)
    ELSE DetailOrGeneric("create", err)

\* onError of the hook of a mutation.
onError(op, err) ==
  IF op = "create" THEN createOnError(err) ELSE DetailOrGeneric(op, err)

\* onSuccess of useCreateCollection.
createOnSuccess(c, data) ==
  setQueryData(invalidateQueries(c, lists), detail(data.id), data)

\* onSuccess of useUpdateCollection.
updateOnSuccess(c, id, data) ==
  invalidateQueries(setQueryData(c, detail(id), data), lists)

\* onSuccess of useDeleteCollection.
deleteOnSuccess(c, id) ==
  invalidateQueries(removeQueries(c, detail(id)), lists)

\* An onSuccess of usePublishCollection that invalidates the detail entry
\* instead of seeding it.
publishOnSuccessInvalidates(c, id, data) ==
  invalidateQueries(invalidateQueries(c, detail(id)), lists)

\* onSuccess of usePublishCollection.
publishOnSuccess(c, id, data) ==
  invalidateQueries(setQueryData(c, detail(id), data), lists)

\* Call sites of the mutation hooks: a call without options, and
\* CollectionManager, which passes its own onSuccess to useDeleteCollection.
Sites == {"plain", "CollectionManager"}

\* { onSuccess, onError, ...options }: an onSuccess among the options
\* replaces the hook's.
OptionsOnSuccess(site) == site = "CollectionManager"

\* The onSuccess that runs for a mutation, after the merge of the options.
onSuccess(c, m, data) ==
  IF OptionsOnSuccess(m.site) THEN refetch(c, list("{limit:100}"))
  ELSE CASE m.op = "create" -> createOnSuccess(c, data)
         [] m.op = "update" -> updateOnSuccess(c, m.id, data)
         [] m.op = "delete" -> deleteOnSuccess(c, m.id)
         [] m.op = "publish" -> publishOnSuccess(c, m.id, data)

\* Toasts of the onSuccess that runs.
SuccessNotices(m) ==
  IF OptionsOnSuccess(m.site) THEN <<>>
  ELSE <<Notice("hook", "success", m.op)>>

Mutation(op, id, publish, site, n) ==
  [op |-> op, id |-> id, publish |-> publish, site |-> site, n |-> n]

NoMutation == Mutation(NONE, NONE, FALSE, "plain", 0)

CacheStep(kind, m, key, err, network) ==
  [kind |-> kind, m |-> m, key |-> key, error |-> err, network |-> network]

NoRejection == Rejection(200, <<>>, FALSE, NONE)

CacheIdle ==
  /\ cache = EmptyCache
  /\ server \in [Ids -> {[exists |-> TRUE, is_published |-> FALSE],
                         [exists |-> FALSE, is_published |-> FALSE]}]
  /\ mutations = {}
  /\ notices = <<>>
  /\ cacheStep = CacheStep("mount", NoMutation, <<>>, NoRejection, FALSE)
  /\ nMutations = 0

----------------------------------------------------------------------------
(* Router, order dates and the showroom                                    *)

\* Pathnames are sequences of segments: <<>> is '/'.
Root == <<>>

login == <<"login">>

protectedRoutes ==
  {Root, <<"collections">>, <<"products">>, <<"settings">>, <<"admin">>}

authRoutes == {login, <<"register">>, <<"forgot-password">>}

\* Pathnames a viewer requests: the listed routes and a collection's page.
Pathnames == protectedRoutes \cup authRoutes \cup {<<"collections", "summer">>}

\* pathname.startsWith(`${route}/`)
startsWith(pathname, route) ==
  /\ Len(pathname) > Len(route)
  /\ route # Root
  /\ SubSeq(pathname, 1, Len(route)) = route

\* middleware(request): both flags are computed and neither is used; every
\* branch answers NextResponse.next().
middleware(pathname) ==
  LET isProtectedRoute ==
        \E route \in protectedRoutes :
          pathname = route \/ startsWith(pathname, route)
      isAuthRoute == pathname \in authRoutes
  IN IF pathname = Root THEN "next" ELSE "next"

\* A URL of the router and how it was reached; requested is the view the
\* viewer was sent away from, authed whether the session was authenticated
\* when the URL was requested.
Route(path, redirect, step, requested, authed) ==
  [path |-> path, redirect |-> redirect, step |-> step,
   requested |-> requested, authed |-> authed]

\* router.push('/login') of useRequireAuth.
requireAuthPush(from) == Route(login, NULL, "requireAuth", from, FALSE)

\* searchParams.get('redirect') || '/'
redirectTo(url) == IF url.redirect # NULL THEN url.redirect ELSE Root

NoRoute == Route(Root, NULL, "idle", NULL, FALSE)

\* Calendar dates, as the fields of a JavaScript Date.
Date(y, m, d) == [y |-> y, m |-> m, d |-> d]

Years == {2024, 2025}

Leap(y) == (y % 4 = 0 /\ y % 100 # 0) \/ y % 400 = 0

DaysIn(y, m) ==
  IF m = 2 THEN (IF Leap(y) THEN 29 ELSE 28)
  ELSE IF m \in {4, 6, 9, 11} THEN 30 ELSE 31

\* Valid ISO dates 'YYYY-MM-DD'.
IsoDates ==
  {Date(y, m, d) : y \in Years, m \in 1..12, d \in 1..31} \ 
    {dt \in [y : Years, m : 1..12, d : 1..31] : dt.d > DaysIn(dt.y, dt.m)}

PrevDay(dt) ==
  IF dt.d > 1 THEN Date(dt.y, dt.m, dt.d - 1)
  ELSE IF dt.m > 1 THEN Date(dt.y, dt.m - 1, DaysIn(dt.y, dt.m - 1))
  ELSE Date(dt.y - 1, 12, 31)

\* The time zone of the browser: behind UTC, UTC, ahead of UTC.
Zones == {"west", "utc", "east"}

\* new Date('YYYY-MM-DD') is midnight UTC; getDate(), getFullYear() and
\* toLocaleString read it in local time.
LocalFieldsOfIso(iso, zone) == IF zone = "west" THEN PrevDay(iso) ELSE iso

\* new Date('15 October 2024') is midnight local time; toISOString() writes
\* it in UTC.
IsoOfLocalMidnight(dt, zone) == IF zone = "east" THEN PrevDay(dt) ELSE dt

\* toLocaleString('en-US', { month: 'long' })
MonthNames ==
  <<"January", "February", "March", "April", "May", "June", "July",
    "August", "September", "October", "November", "December">>

getOrdinalSuffix(day) ==
  IF day > 3 /\ day < 21 THEN "th"
  ELSE CASE day % 10 = 1 -> "st"
         [] day % 10 = 2 -> "nd"
         [] day % 10 = 3 -> "rd"
         [] OTHER -> "th"

\* A display string '15th October' or '15th October 2024', by its parts;
\* years are the year numbers that follow the month.
Display(day, suffix, month, years) ==
  [day |-> day, suffix |-> suffix, month |-> month, years |-> years]

formatOrderDate(iso, zone, currentYear) ==
  LET local == LocalFieldsOfIso(iso, zone)
  IN Display(local.d, getOrdinalSuffix(local.d), MonthNames[local.m],
             IF local.y = currentYear THEN <<>> ELSE <<local.y>>)

\* parseOrderDate returns undefined for an Invalid Date.
Undefined == Date(0, 0, 0)

MonthOf(name) == CHOOSE m \in 1..12 : MonthNames[m] = name

\* new Date(text) of '15 October 2024': the local date, Invalid Date when
\* the month has no such day.
DateOf(y, month, day) ==
  IF day <= DaysIn(y, MonthOf(month)) THEN Date(y, MonthOf(month), day)
  ELSE Undefined

\* The results parseOrderDate can return. The ordinal suffix is removed;
\* the current year is appended unless the text contains it. A text with
\* two year numbers is outside the formats Date parsing defines: the
\* engine answers Invalid Date or takes either number as the year.
parseOrderDate(display, zone, currentYear) ==
  LET cleanDate == [display EXCEPT !.suffix = ""]
      includes == \E i \in DOMAIN cleanDate.years :
                    cleanDate.years[i] = currentYear
      dateWithYear ==
        IF includes THEN cleanDate.years
        ELSE Append(cleanDate.years, currentYear)
      parsed ==
        IF Len(dateWithYear) = 1
          THEN {DateOf(dateWithYear[1], cleanDate.month, cleanDate.day)}
          ELSE {Undefined}
                 \cup {DateOf(dateWithYear[i], cleanDate.month, cleanDate.day) :
                         i \in DOMAIN dateWithYear}
  IN {IF dt = Undefined THEN Undefined ELSE IsoOfLocalMidnight(dt, zone) :
        dt \in parsed}

OrderDate(iso, zone, currentYear, display, parsed, step) ==
  [iso |-> iso, zone |-> zone, currentYear |-> currentYear,
   display |-> display, parsed |-> parsed, step |-> step]

NoDisplay == Display(0, "", "", <<>>)

NoDate == OrderDate(Undefined, "utc", 0, NoDisplay, Undefined, "none")

\* VirtualShowroom: collection.products by the number of variants of each
\* product, and the two indices held by useState (counted from 0).
Showroom(products, selectedProductIndex, selectedVariantIndex, step) ==
  [products |-> products, selectedProductIndex |-> selectedProductIndex,
   selectedVariantIndex |-> selectedVariantIndex, step |-> step]

\* Collections whose products each have at least one variant.
Collections ==
  UNION {[1..n -> 1..MaxVariants] : n \in 0..MaxProducts}

\* collection.products[selectedProductIndex]?.variants.length, 0 when there
\* is no such product.
currentVariants(sh) ==
  IF sh.selectedProductIndex + 1 \in DOMAIN sh.products
    THEN sh.products[sh.selectedProductIndex + 1] ELSE 0

\* A nextProduct that keeps the selected variant.
nextProductKeepsVariant(sh) ==
  IF sh.selectedProductIndex < Len(sh.products) - 1
    THEN [sh EXCEPT !.selectedProductIndex = @ + 1]
    ELSE sh

nextProduct(sh) ==
  IF sh.selectedProductIndex < Len(sh.products) - 1
    THEN [sh EXCEPT !.selectedProductIndex = @ + 1,
                    !.selectedVariantIndex = 0]
    ELSE sh

prevProduct(sh) ==
  IF sh.selectedProductIndex > 0
    THEN [sh EXCEPT !.selectedProductIndex = @ - 1,
                    !.selectedVariantIndex = 0]
    ELSE sh

\* onClick of the item rendered for collection.products[index].
productClick(sh, index) ==
  [sh EXCEPT !.selectedProductIndex = index, !.selectedVariantIndex = 0]

\* onClick of the button rendered for currentProduct.variants[index].
variantClick(sh, index) == [sh EXCEPT !.selectedVariantIndex = index]

NoShowroom == Showroom(<<>>, 0, 0, "none")

PagesIdle ==
  /\ router = NoRoute
  /\ orderDate = NoDate
  /\ showroom = NoShowroom

----------------------------------------------------------------------------
SessionInit ==
  /\ state = InitialState
  /\ currentUser \in Identities \cup {NULL}
  /\ notifQueue = <<[fb |-> currentUser, cause |-> "subscribe"]>>
  /\ fetches = {}
  /\ calls = {}
  /\ location \in Paths
  /\ navPending = NULL
  /\ view = Page(location, state)
  /\ toast = NONE
  /\ lastStep = [kind |-> "init", fb |-> NULL, outcome |-> NONE]
  /\ nNotif = 0
  /\ lastNotified = NULL
  /\ lastResult = NONE
  /\ signedOut = FALSE
  /\ nCalls = 0
  /\ nRefresh = 0
  /\ nReloads = 0
  /\ currentTenant = NULL
  /\ availableTenants = <<>>
  /\ tenantIsLoading = FALSE
  /\ savedTenantId \in TenantIds \cup {NULL}
  /\ tenantStep = TenantStep("mount", NULL, NONE)
  /\ savedBy = NONE
  /\ CacheIdle

Init == SessionInit /\ PagesIdle

Step(kind, fb, outcome) == [kind |-> kind, fb |-> fb, outcome |-> outcome]

\* The provider notifies observers only when the signed-in uid changes.
Notify(queue, old, new, cause) ==
  IF new # old THEN Append(queue, [fb |-> new, cause |-> cause]) ELSE queue

\* onAuthStateChanged observer, up to its first await.
Deliver ==
  /\ notifQueue # <<>>
  /\ nNotif < MaxNotifications
  /\ LET n == Head(notifQueue) IN
       /\ notifQueue' = Tail(notifQueue)
       /\ nNotif' = nNotif + 1
       /\ lastNotified' = n.fb
       /\ IF n.fb # NULL
            THEN /\ fetches' = fetches \cup
                       {[by |-> "observer", fb |-> n.fb, seq |-> nNotif + 1]}
                 /\ state' = state
                 /\ lastResult' = "pending"
                 /\ signedOut' = FALSE
            ELSE /\ fetches' = fetches
                 /\ state' = SignedOutState
                 /\ lastResult' = NONE
                 /\ signedOut' = (n.cause = "signOut")
       /\ lastStep' = Step("notified", n.fb, n.cause)
  /\ toast' = NONE
  /\ view' = Page(location, state')
  /\ UNCHANGED <<currentUser, calls, location, navPending, nCalls, nRefresh,
                 nReloads>>
  /\ TenantEffect(FALSE)
  /\ UNCHANGED <<cacheVars, pageVars>>

\* The observer's continuation once fetchUserProfile has settled.
ObserverContinuation(f, outcome) ==
  /\ f \in fetches
  /\ f.by = "observer"
  /\ fetches' = fetches \ {f}
  /\ state' = SignedInState(fetchUserProfile(f.fb, outcome), f.fb)
  /\ toast' = InterceptorToast(outcome)
  /\ navPending' = InterceptorNav(outcome, navPending)
  /\ lastResult' = IF f.seq = nNotif
                     THEN (IF outcome = "ok" THEN "ok" ELSE "failed")
                     ELSE lastResult
  /\ lastStep' = Step("profile", f.fb, outcome)
  /\ view' = Page(location, state')
  /\ UNCHANGED <<currentUser, notifQueue, calls, location, nNotif,
                 lastNotified, signedOut, nCalls, nRefresh>>
  /\ TenantEffect(TRUE)
  /\ UNCHANGED <<cacheVars, pageVars>>

\* The continuation, with the forced navigations it starts counted.
ProfileResolved(f, outcome) ==
  /\ outcome = "e401" => nReloads < MaxReloads
  /\ ObserverContinuation(f, outcome)
  /\ nReloads' = IF outcome = "e401" THEN nReloads + 1 ELSE nReloads

\* The browser completes the full-page navigation the interceptor started:
\* the application is loaded afresh, AuthProvider mounts with its initial
\* state and subscribes again; promises of the previous page are gone.
PageLoad ==
  /\ navPending # NULL
  /\ location' = navPending
  /\ navPending' = NULL
  /\ state' = InitialState
  /\ notifQueue' = <<[fb |-> currentUser, cause |-> "subscribe"]>>
  /\ fetches' = {}
  /\ calls' = {}
  /\ toast' = NONE
  /\ lastStep' = Step("load", NULL, NONE)
  /\ nNotif' = 0
  /\ lastNotified' = NULL
  /\ lastResult' = NONE
  /\ signedOut' = FALSE
  /\ view' = Page(location', state')
  /\ UNCHANGED <<currentUser, nCalls, nRefresh, nReloads>>
  /\ currentTenant' = NULL
  /\ availableTenants' = <<>>
  /\ tenantIsLoading' = FALSE
  /\ tenantStep' = TenantStep("mount", NULL, NONE)
  /\ UNCHANGED <<savedTenantId, savedBy>>
  /\ cache' = EmptyCache
  /\ mutations' = {}
  /\ notices' = <<>>
  /\ cacheStep' = CacheStep("mount", NoMutation, <<>>, NoRejection, FALSE)
  /\ UNCHANGED <<server, nMutations, pageVars>>

\* signIn / signUp up to the await of the provider call.
SignCall(op, who) ==
  /\ nCalls < MaxCalls
  /\ nCalls' = nCalls + 1
  /\ state' = StartLoading(state)
  /\ calls' = calls \cup {[op |-> op, who |-> who, id |-> nCalls + 1,
                          was |-> state.isLoading]}
  /\ toast' = NONE
  /\ lastStep' = Step(op, who, "called")
  /\ view' = Page(location, state')
  /\ UNCHANGED <<currentUser, notifQueue, fetches, location, navPending,
                 nRefresh, nReloads, ghost>>
  /\ UNCHANGED tenantVars
  /\ UNCHANGED <<cacheVars, pageVars>>

signIn(who) == SignCall("signIn", who)

signUp(who) == SignCall("signUp", who)

\* The provider accepted the credentials: signIn / signUp return.
SignAccepted(c) ==
  /\ c \in calls
  /\ calls' = calls \ {c}
  /\ currentUser' = c.who
  /\ notifQueue' = Notify(notifQueue, currentUser, c.who, c.op)
  /\ toast' = IF c.op = "signIn" THEN "Signed in successfully!"
                                 ELSE "Account created successfully!"
  /\ lastStep' = Step(c.op, c.who, "returned")
  /\ UNCHANGED <<state, fetches, location, navPending, view, nCalls,
                 nRefresh, nReloads, ghost>>
  /\ UNCHANGED tenantVars
  /\ UNCHANGED <<cacheVars, pageVars>>

\* The provider rejected: the catch block runs and the error is rethrown.
SignRejected(c) ==
  /\ c \in calls
  /\ calls' = calls \ {c}
  /\ state' = IF c.op = "signUp" THEN StopLoading(state) ELSE state
  /\ toast' = IF c.op = "signIn" THEN "Failed to sign in"
                                 ELSE "Failed to create account"
  /\ lastStep' = Step(c.op, c.who, "threw")
  /\ view' = Page(location, state')
  /\ UNCHANGED <<currentUser, notifQueue, fetches, location, navPending,
                 nCalls, nRefresh, nReloads, ghost>>
  /\ UNCHANGED tenantVars
  /\ UNCHANGED <<cacheVars, pageVars>>

\* signOut: nothing precedes the await, so the call and the provider's
\* answer are one step.
signOut(accepted) ==
  /\ nCalls < MaxCalls
  /\ nCalls' = nCalls + 1
  /\ IF accepted
       THEN /\ currentUser' = NULL
            /\ notifQueue' = Notify(notifQueue, currentUser, NULL, "signOut")
            /\ toast' = "Signed out successfully"
       ELSE /\ UNCHANGED <<currentUser, notifQueue>>
            /\ toast' = "Failed to sign out"
  /\ lastStep' = Step("signOut", NULL, IF accepted THEN "returned" ELSE "failed")
  /\ UNCHANGED <<state, fetches, calls, location, navPending, view,
                 nRefresh, nReloads, ghost>>
  /\ UNCHANGED tenantVars
  /\ UNCHANGED <<cacheVars, pageVars>>

\* resetPassword: likewise one step; a rejection is rethrown.
resetPassword(accepted) ==
  /\ nCalls < MaxCalls
  /\ nCalls' = nCalls + 1
  /\ toast' = IF accepted THEN "Password reset email sent!"
                          ELSE "Failed to send reset email"
  /\ lastStep' = Step("resetPassword", NULL,
                      IF accepted THEN "returned" ELSE "threw")
  /\ UNCHANGED <<state, currentUser, notifQueue, fetches, calls, location,
                 navPending, view, nRefresh, nReloads, ghost>>
  /\ UNCHANGED tenantVars
  /\ UNCHANGED <<cacheVars, pageVars>>

\* refreshUser up to its await; without a firebaseUser it returns at once.
refreshUser ==
  /\ state.firebaseUser # NULL
  /\ nRefresh < MaxRefresh
  /\ nRefresh' = nRefresh + 1
  /\ fetches' = fetches \cup
        {[by |-> "refreshUser", fb |-> state.firebaseUser, seq |-> nRefresh + 1]}
  /\ toast' = NONE
  /\ lastStep' = Step("refreshUser", state.firebaseUser, "called")
  /\ UNCHANGED <<state, currentUser, notifQueue, calls, location, navPending,
                 view, nCalls, nReloads, ghost>>
  /\ UNCHANGED tenantVars
  /\ UNCHANGED <<cacheVars, pageVars>>

\* refreshUser's continuation once fetchUserProfile has settled.
RefreshResolved(f, outcome) ==
  /\ f \in fetches
  /\ f.by = "refreshUser"
  /\ outcome = "e401" => nReloads < MaxReloads
  /\ fetches' = fetches \ {f}
  /\ state' = RefreshedState(state, fetchUserProfile(f.fb, outcome))
  /\ toast' = InterceptorToast(outcome)
  /\ navPending' = InterceptorNav(outcome, navPending)
  /\ nReloads' = IF outcome = "e401" THEN nReloads + 1 ELSE nReloads
  /\ lastStep' = Step("refreshUser", f.fb, outcome)
  /\ view' = Page(location, state')
  /\ UNCHANGED <<currentUser, notifQueue, calls, location, nCalls, nRefresh,
                 ghost>>
  /\ TenantEffect(TRUE)
  /\ UNCHANGED <<cacheVars, pageVars>>

\* switchTenant(tenantId), called with any id.
switchTenant(tenantId) ==
  /\ LET tenant == find(availableTenants, tenantId) IN
       IF tenant # NULL
         THEN /\ currentTenant' = tenant
              /\ savedTenantId' = tenantId
              /\ savedBy' = state.user
              /\ tenantStep' = TenantStep("switched", tenantId, NONE)
              /\ lastStep' = Step("switchTenant", tenantId, "switched")
         ELSE /\ UNCHANGED <<currentTenant, savedTenantId, savedBy>>
              /\ tenantStep' = TenantStep("ignored", tenantId, NONE)
              /\ lastStep' = Step("switchTenant", tenantId, "ignored")
  /\ toast' = NONE
  /\ UNCHANGED <<availableTenants, tenantIsLoading>>
  /\ UNCHANGED <<state, currentUser, notifQueue, fetches, calls, location,
                 navPending, view, nNotif, lastNotified, lastResult,
                 signedOut, nCalls, nRefresh, nReloads>>
  /\ UNCHANGED <<cacheVars, pageVars>>

Next ==
  \/ Deliver
  \/ \E f \in fetches, o \in Outcomes : ProfileResolved(f, o)
  \/ PageLoad
  \/ \E who \in Identities : signIn(who)
  \/ \E who \in Identities : signUp(who)
  \/ \E c \in calls : SignAccepted(c)
  \/ \E c \in calls : SignRejected(c)
  \/ \E accepted \in BOOLEAN : signOut(accepted)
  \/ \E accepted \in BOOLEAN : resetPassword(accepted)
  \/ refreshUser
  \/ \E f \in fetches, o \in Outcomes : RefreshResolved(f, o)
  \/ \E tenantId \in TenantIds : switchTenant(tenantId)

Spec == Init /\ [][Next]_vars

\* Promises settle, queued notifications are delivered and a started
\* navigation completes; what the user and the backend do is not forced.
Fairness ==
  /\ WF_vars(Deliver)
  /\ WF_vars(\E f \in fetches, o \in Outcomes : ProfileResolved(f, o))
  /\ WF_vars(\E f \in fetches, o \in Outcomes : RefreshResolved(f, o))
  /\ WF_vars(\E c \in calls : SignAccepted(c) \/ SignRejected(c))
  /\ WF_vars(PageLoad)

FairSpec == Spec /\ Fairness

\* The session with the forced navigations left uncounted: the backend may
\* answer 401 after every page load.
ReloadNext ==
  \/ Deliver
  \/ \E f \in fetches, o \in Outcomes :
       ObserverContinuation(f, o) /\ UNCHANGED nReloads
  \/ PageLoad
  \/ \E who \in Identities : signIn(who)
  \/ \E c \in calls : SignAccepted(c)
  \/ \E c \in calls : SignRejected(c)
  \/ \E accepted \in BOOLEAN : signOut(accepted)

ReloadFairness ==
  /\ WF_vars(Deliver)
  /\ WF_vars(\E f \in fetches, o \in Outcomes :
               ObserverContinuation(f, o) /\ UNCHANGED nReloads)
  /\ WF_vars(\E c \in calls : SignAccepted(c) \/ SignRejected(c))
  /\ WF_vars(PageLoad)

ReloadSpec == Init /\ [][ReloadNext]_vars /\ ReloadFairness

----------------------------------------------------------------------------
(* Collections: reads and mutations                                        *)

sessionVars == <<state, currentUser, notifQueue, fetches, calls, view, toast,
                 lastStep, nNotif, lastNotified, lastResult, signedOut,
                 nCalls, nRefresh, tenantVars, pageVars>>

\* A component mounts useQuery with a key: data in the cache is returned at
\* once; a request is issued when there is no data or the data is stale,
\* unless one is already in flight for the key.
UseQuery(hook, key, params) ==
  /\ LET e == cache[key]
         start == ~e.present \/ IsStale(e)
     IN /\ cache' = [cache EXCEPT ![key] = [e EXCEPT !.fetching = @ \/ start]]
        /\ cacheStep' = CacheStep("read", Mutation(hook, params, FALSE, "plain", 0),
                                  key, NoRejection, start /\ ~e.fetching)
  /\ notices' = <<>>
  /\ UNCHANGED <<server, mutations, nMutations, location, navPending,
                 nReloads, sessionVars>>

useCollections(params) == UseQuery("useCollections", list(params), params)

useCollection(id) == UseQuery("useCollection", detail(id), id)

useFeaturedCollections(limit) ==
  UseQuery("useFeaturedCollections", featured, limit)

useCollectionBySlug(slug) ==
  UseQuery("useCollectionBySlug", detailBySlug(slug), slug)

\* The collection the request of a detail key is about: GET /collections/{id}
\* or GET /collections/slug/{slug}.
Requested(key) ==
  IF Len(key) = 4 THEN CHOOSE i \in Ids : slugOf[i] = key[4] ELSE key[3]

\* What the backend answers to the request of a query key.
Answer(key) ==
  IF key[2] = "detail"
    THEN Collection(Requested(key), server[Requested(key)].is_published)
  ELSE [kind |-> key[2]]

\* The request of a query is answered.
QueryResolved(key) ==
  /\ cache[key].fetching
  /\ key[2] = "detail" => server[Requested(key)].exists
  /\ cache' = [cache EXCEPT ![key] =
                 [@ EXCEPT !.present = TRUE, !.data = Answer(key),
                           !.invalidated = FALSE, !.fetching = FALSE]]
  /\ cacheStep' = CacheStep("queryOk", NoMutation, key, NoRejection, TRUE)
  /\ notices' = <<>>
  /\ UNCHANGED <<server, mutations, nMutations, location, navPending,
                 nReloads, sessionVars>>

\* The request of a query is rejected, after the interceptor has run.
QueryRejected(key, err) ==
  /\ cache[key].fetching
  /\ err.status = 401 => nReloads < MaxReloads
  /\ cache' = [cache EXCEPT ![key].fetching = FALSE]
  /\ notices' = InterceptorNotices(err)
  /\ navPending' = InterceptorNav(InterceptorBranch(err), navPending)
  /\ nReloads' = IF err.status = 401 THEN nReloads + 1 ELSE nReloads
  /\ cacheStep' = CacheStep("queryFailed", NoMutation, key, err, TRUE)
  /\ UNCHANGED <<server, mutations, nMutations, location, sessionVars>>

\* mutate(variables) of a mutation hook, up to the request.
Mutate(op, id, publish, site) ==
  /\ nMutations < MaxMutations
  /\ site = "CollectionManager" => op = "delete"
  /\ op = "create" <=> id = NONE
  /\ publish => op = "publish"
  /\ nMutations' = nMutations + 1
  /\ mutations' = mutations \cup {Mutation(op, id, publish, site, nMutations + 1)}
  /\ cacheStep' = CacheStep("mutate", Mutation(op, id, publish, site, nMutations + 1),
                            <<>>, NoRejection, TRUE)
  /\ notices' = <<>>
  /\ UNCHANGED <<cache, server, location, navPending, nReloads, sessionVars>>

\* The collection a mutation is about: a new one for create.
Target(m) ==
  IF m.op = "create" THEN CHOOSE i \in Ids : ~server[i].exists ELSE m.id

\* The backend's response to a mutation it accepts.
Response(m) ==
  CASE m.op = "create" -> Collection(Target(m), FALSE)
    [] m.op = "update" -> Collection(m.id, server[m.id].is_published)
    [] m.op = "publish" -> Collection(m.id, m.publish)
    [] m.op = "delete" -> NoData

\* The backend accepts a mutation and the onSuccess in force runs.
MutationSucceeded(m) ==
  /\ m \in mutations
  /\ IF m.op = "create" THEN \E i \in Ids : ~server[i].exists
                        ELSE server[m.id].exists
  /\ server' = [server EXCEPT ![Target(m)] =
                  CASE m.op = "delete" -> [exists |-> FALSE, is_published |-> FALSE]
                    [] m.op = "create" -> [exists |-> TRUE, is_published |-> FALSE]
                    [] m.op = "publish" -> [@ EXCEPT !.is_published = m.publish]
                    [] OTHER -> @]
  /\ cache' = onSuccess(cache, m, Response(m))
  /\ notices' = SuccessNotices(m)
  /\ mutations' = mutations \ {m}
  /\ cacheStep' = CacheStep("mutationOk", [m EXCEPT !.id = Target(m)], <<>>,
                            NoRejection, TRUE)
  /\ UNCHANGED <<nMutations, location, navPending, nReloads, sessionVars>>

\* The backend rejects a mutation: the interceptor runs, then onError.
MutationFailed(m, err) ==
  /\ m \in mutations
  /\ err.status = 401 => nReloads < MaxReloads
  /\ notices' = InterceptorNotices(err) \o onError(m.op, err)
  /\ navPending' = InterceptorNav(InterceptorBranch(err), navPending)
  /\ nReloads' = IF err.status = 401 THEN nReloads + 1 ELSE nReloads
  /\ mutations' = IF RetryMutation THEN mutations ELSE mutations \ {m}
  /\ cacheStep' = CacheStep("mutationFailed", m, <<>>, err, TRUE)
  /\ UNCHANGED <<cache, server, nMutations, location, sessionVars>>

Ops == {"create", "update", "delete", "publish"}

CacheNext ==
  \/ \E params \in ListParams : useCollections(params)
  \/ \E id \in Ids : useCollection(id)
  \/ \E limit \in Limits : useFeaturedCollections(limit)
  \/ \E key \in QueryKeys : QueryResolved(key)
  \/ \E key \in QueryKeys, err \in QueryRejections : QueryRejected(key, err)
  \/ \E op \in Ops, id \in Ids \cup {NONE}, publish \in BOOLEAN, site \in Sites :
       Mutate(op, id, publish, site)
  \/ \E m \in mutations : MutationSucceeded(m)
  \/ \E m \in mutations, err \in Rejections : MutationFailed(m, err)
  \/ PageLoad

\* The collections hooks read nothing of the session: it is left as it is
\* when the application starts without a provider session.
CacheInit ==
  Init /\ currentUser = NULL /\ savedTenantId = NULL /\ location = "/"

CacheSpec == CacheInit /\ [][CacheNext]_vars

\* The detail reads of a collection, by id and by slug, next to the
\* mutations.
SlugNext ==
  \/ \E id \in Ids : useCollection(id)
  \/ \E slug \in Slugs : useCollectionBySlug(slug)
  \/ \E params \in ListParams : useCollections(params)
  \/ \E key \in QueryKeys : QueryResolved(key)
  \/ \E op \in Ops, id \in Ids \cup {NONE}, publish \in BOOLEAN, site \in Sites :
       Mutate(op, id, publish, site)
  \/ \E m \in mutations : MutationSucceeded(m)

SlugSpec == CacheInit /\ [][SlugNext]_vars

----------------------------------------------------------------------------
(* Routing                                                                 *)

appVars == <<state, currentUser, notifQueue, fetches, calls, location,
             navPending, view, toast, lastStep, nNotif, lastNotified,
             lastResult, signedOut, nCalls, nRefresh, nReloads, tenantVars,
             cacheVars>>

\* The viewer follows a link to pathname: the request passes the
\* middleware, which serves the page or redirects.
Request(pathname) ==
  /\ router' = IF middleware(pathname) = "next"
                 THEN Route(pathname, NULL, "served", NULL, state.isAuthenticated)
                 ELSE Route(Root, NULL, "redirected", NULL, state.isAuthenticated)
  /\ UNCHANGED <<appVars, orderDate, showroom>>

\* The effect of useRequireAuth in a view that is not an auth page.
useRequireAuth ==
  /\ router.path \notin authRoutes
  /\ ~state.isLoading /\ ~state.isAuthenticated
  /\ router' = requireAuthPush(router.path)
  /\ UNCHANGED <<appVars, orderDate, showroom>>

\* LoginForm.onSubmit up to the await of signIn.
onSubmit(who) == router.path = login /\ signIn(who)

\* LoginForm.onSubmit after signIn has returned: router.push(redirectTo).
onSubmitContinues ==
  /\ router.path = login
  /\ router.step # "loginPush"
  /\ nCalls > 0 /\ calls = {} /\ currentUser # NULL
  /\ router' = Route(redirectTo(router), NULL, "loginPush", router.requested,
                     state.isAuthenticated)
  /\ UNCHANGED <<appVars, orderDate, showroom>>

RouteNext ==
  \/ \E pathname \in Pathnames : Request(pathname)
  \/ useRequireAuth
  \/ Deliver
  \/ \E f \in fetches, o \in {"ok", "e5xx"} : ProfileResolved(f, o)
  \/ \E who \in Identities : onSubmit(who)
  \/ \E c \in calls : SignAccepted(c)
  \/ \E c \in calls : SignRejected(c)
  \/ onSubmitContinues

RouteSpec == CacheInit /\ [][RouteNext]_vars

----------------------------------------------------------------------------
(* Order dates                                                             *)

\* transformCollectionResponse formats the backend's order date.
Format ==
  /\ orderDate.step = "input"
  /\ orderDate' =
       [orderDate EXCEPT
          !.display = formatOrderDate(orderDate.iso, orderDate.zone,
                                      orderDate.currentYear),
          !.step = "formatted"]
  /\ UNCHANGED <<appVars, router, showroom>>

\* transformToCollectionCreate parses the display string back.
Parse ==
  /\ orderDate.step = "formatted"
  /\ \E iso \in parseOrderDate(orderDate.display, orderDate.zone,
                                orderDate.currentYear) :
       orderDate' = [orderDate EXCEPT !.parsed = iso, !.step = "parsed"]
  /\ UNCHANGED <<appVars, router, showroom>>

DateNext == Format \/ Parse

\* Every valid ISO date of the years considered, in every zone, with either
\* year as the current one.
DateInit ==
  /\ SessionInit
  /\ currentUser = NULL /\ savedTenantId = NULL /\ location = "/"
  /\ router = NoRoute
  /\ showroom = NoShowroom
  /\ orderDate \in {OrderDate(iso, zone, currentYear, NoDisplay, Undefined, "input") :
                      iso \in IsoDates, zone \in Zones, currentYear \in Years}

DateSpec == DateInit /\ [][DateNext]_vars

----------------------------------------------------------------------------
(* VirtualShowroom                                                         *)

\* The next and previous buttons are rendered with the current product.
NextProduct ==
  /\ currentVariants(showroom) > 0
  /\ showroom' = [nextProduct(showroom) EXCEPT !.step = "nextProduct"]
  /\ UNCHANGED <<appVars, router, orderDate>>

PrevProduct ==
  /\ currentVariants(showroom) > 0
  /\ showroom' = [prevProduct(showroom) EXCEPT !.step = "prevProduct"]
  /\ UNCHANGED <<appVars, router, orderDate>>

ProductClick(index) ==
  /\ index + 1 \in DOMAIN showroom.products
  /\ showroom' = [productClick(showroom, index) EXCEPT !.step = "productClick"]
  /\ UNCHANGED <<appVars, router, orderDate>>

\* The variant buttons are rendered when the current product has more
\* than one variant.
VariantClick(index) ==
  /\ currentVariants(showroom) > 1
  /\ index < currentVariants(showroom)
  /\ showroom' = [variantClick(showroom, index) EXCEPT !.step = "variantClick"]
  /\ UNCHANGED <<appVars, router, orderDate>>

ShowroomNext ==
  \/ NextProduct
  \/ PrevProduct
  \/ \E index \in 0..(MaxProducts - 1) : ProductClick(index)
  \/ \E index \in 0..(MaxVariants - 1) : VariantClick(index)

\* VirtualShowroom mounts with a collection: useState(0) twice.
ShowroomInit ==
  /\ SessionInit
  /\ currentUser = NULL /\ savedTenantId = NULL /\ location = "/"
  /\ router = NoRoute
  /\ orderDate = NoDate
  /\ showroom \in {Showroom(products, 0, 0, "mount") : products \in Collections}

ShowroomSpec == ShowroomInit /\ [][ShowroomNext]_vars

----------------------------------------------------------------------------
(* Properties                                                              *)

ObserverFetches == {f \in fetches : f.by = "observer"}

\* C1: whenever no profile fetch is in flight, isAuthenticated is true iff
\* the most recently notified identity is non-null and the profile fetch
\* started for that notification succeeded; a fetch of an earlier
\* notification that resolves later does not determine the session.
C1_LatestNotificationDecides ==
  fetches = {} =>
    (state.isAuthenticated <=> (lastNotified # NULL /\ lastResult = "ok"))

\* C2: in every reachable state isAuthenticated is true iff user (the
\* backend profile) is non-null.
C2_AuthenticatedIffUser ==
  state.isAuthenticated <=> (state.user # NULL)

\* C3: while the profile fetch of a notification carrying an identity is in
\* flight, isLoading is true and isAuthenticated is false.
C3_LoadingWhileFetching ==
  ObserverFetches # {} => (state.isLoading /\ ~state.isAuthenticated)

\* C4: once signOut's null notification has been handled the session is
\* empty, and it stays unauthenticated until a later notification carrying
\* an identity arrives, also when an earlier profile fetch resolves.
C4_SignedOutStaysUnauthenticated ==
  /\ (lastStep.kind = "notified" /\ lastStep.outcome = "signOut")
        => state = [user |-> NULL, firebaseUser |-> NULL,
                    isLoading |-> FALSE, isAuthenticated |-> FALSE]
  /\ signedOut => ~state.isAuthenticated

\* C5: on a page wrapped in AuthGuard only the fallback is rendered while
\* isLoading is true, whatever isAuthenticated is, and the children are
\* rendered only when isLoading is false and isAuthenticated is true.
C5_GuardHidesChildrenWhileLoading ==
  location = "/" =>
    /\ state.isLoading => view = "fallback"
    /\ view = "children" => (~state.isLoading /\ state.isAuthenticated)

\* C5 witness: the guard shows the fallback to an authenticated session
\* that is loading again.
C5_Witness ==
  location = "/" /\ state.isLoading /\ state.isAuthenticated
  /\ view = "fallback"

Settled ==
  fetches = {} /\ calls = {} /\ notifQueue = <<>> /\ navPending = NULL

\* C6: when the guarded home page is shown and the session has settled with
\* isLoading false and isAuthenticated false, the viewer is eventually
\* navigated to /login.
C6_UnauthenticatedLeadsToLogin ==
  (location = "/" /\ Settled /\ ~state.isLoading /\ ~state.isAuthenticated)
    ~> (location = "/login")

SignSteps == {"signIn", "signUp"}

\* C7 as stated: no step of signIn or signUp changes the session state.
C7_SignNeverChangesSession ==
  [][lastStep'.kind \in SignSteps => state' = state]_vars

\* C7 amended: a step of signIn or signUp changes no session field other
\* than isLoading: the call sets isLoading to true, a return leaves the
\* session as it is, and a rejection leaves it as it is in signIn and sets
\* isLoading to false in signUp.
C7_SignOnlyTouchesIsLoading ==
  [][lastStep'.kind \in SignSteps =>
       /\ state'.user = state.user
       /\ state'.firebaseUser = state.firebaseUser
       /\ state'.isAuthenticated = state.isAuthenticated
       /\ state'.isLoading =
            CASE lastStep'.outcome = "called" -> TRUE
              [] lastStep'.outcome = "threw" /\ lastStep'.kind = "signUp"
                   -> FALSE
              [] OTHER -> state.isLoading]_vars

\* C7 witness: signIn was called by an authenticated session and is
\* awaiting the provider.
C7_Witness ==
  /\ lastStep.kind = "signIn" /\ lastStep.outcome = "called"
  /\ state.isLoading /\ state.isAuthenticated /\ state.user # NULL

\* C8: when the profile fetch of a notification succeeds the session is
\* {profile, identity, isLoading false, isAuthenticated true}; when it fails
\* or returns no profile the session is {null, identity, false, false}.
C8_ProfileOutcomeSetsSession ==
  lastStep.kind = "profile" =>
    state = IF lastStep.outcome = "ok"
              THEN [user |-> Profile(lastStep.fb),
                    firebaseUser |-> lastStep.fb,
                    isLoading |-> FALSE, isAuthenticated |-> TRUE]
              ELSE [user |-> NULL, firebaseUser |-> lastStep.fb,
                    isLoading |-> FALSE, isAuthenticated |-> FALSE]

\* C8 witness: a profile fetch failed for an identity while the session was
\* loading under signIn, and the identity stays set.
C8_Witness ==
  /\ lastStep.kind = "profile" /\ lastStep.outcome \in FailureKinds
  /\ lastStep.fb \in Identities
  /\ state.firebaseUser = lastStep.fb /\ state.user = NULL

\* C9: a failing profile fetch of the observer shows no toast and starts no
\* navigation, for every failure kind.
C9_ProfileFailureIsSilent ==
  [][(lastStep'.kind = "profile" /\ lastStep'.outcome \in FailureKinds) =>
       (toast' = NONE /\ navPending' = navPending /\ location' = location)]_vars

\* C10: notifications are handled one at a time; no two observer handlers
\* are ever in progress together.
C10_OneHandlerAtATime ==
  Cardinality(ObserverFetches) <= 1

InAvailable(tenantId) == \E i \in DOMAIN availableTenants : availableTenants[i] = tenantId

\* C11: switchTenant(id) with id not in availableTenants changes neither
\* currentTenant nor availableTenants nor the persisted selectedTenantId.
C11_SwitchToUnknownTenantIsNoOp ==
  [][(lastStep'.kind = "switchTenant" /\ ~InAvailable(lastStep'.fb)) =>
       UNCHANGED <<currentTenant, availableTenants, savedTenantId>>]_vars

\* C11 witness: with tenants available, switchTenant was called with an id
\* that is not among them.
C11_Witness ==
  /\ lastStep.kind = "switchTenant" /\ lastStep.fb = "2"
  /\ availableTenants = <<"1">> /\ currentTenant = "1"

\* C12: whenever the session is unauthenticated (isAuthenticated false or
\* user null) currentTenant is null and availableTenants is empty.
C12_UnauthenticatedHasNoTenant ==
  (~state.isAuthenticated \/ state.user = NULL) =>
    (currentTenant = NULL /\ availableTenants = <<>>)

\* C12 witness: the effect has reset the tenants of a session that lost
\* its profile while its authenticated flag stayed set.
C12_Witness ==
  /\ tenantStep.op = "reset"
  /\ state.isAuthenticated /\ state.user = NULL
  /\ currentTenant = NULL /\ availableTenants = <<>>

\* C13: the persisted selection is keyed by user: when fetchAvailableTenants
\* takes the current tenant from the persisted id, that id was written by
\* switchTenant on behalf of the same user.
C13_SelectionKeyedByUser ==
  (tenantStep.op = "fetched" /\ tenantStep.from = "saved" /\ savedBy # NONE)
    => savedBy = state.user

\* C14: after fetchAvailableTenants, currentTenant is the tenant of the
\* persisted id when that id is available, and otherwise the first
\* available tenant.
C14_FetchSelectsSavedOrFirst ==
  tenantStep.op = "fetched" =>
    /\ availableTenants # <<>>
    /\ currentTenant = IF savedTenantId # NULL /\ InAvailable(savedTenantId)
                         THEN savedTenantId
                         ELSE availableTenants[1]

\* C14 witness: the persisted id is not available and the first tenant
\* was selected.
C14_Witness ==
  /\ tenantStep.op = "fetched" /\ savedTenantId = "2"
  /\ currentTenant = "1"

ListKeys == {k \in QueryKeys : Matches(lists, k)}

\* C15: after every successful create, update, delete or publish, from
\* every call site, every list entry of the cache is invalidated, and after
\* create and update the detail entry of the item holds the response.
C15_SuccessInvalidatesLists ==
  [][cacheStep'.kind = "mutationOk" =>
       /\ \A k \in ListKeys : cache'[k].present => cache'[k].invalidated
       /\ cacheStep'.m.op \in {"create", "update"} =>
            /\ cache'[detail(cacheStep'.m.id)].present
            /\ cache'[detail(cacheStep'.m.id)].data =
                 Collection(cacheStep'.m.id,
                            server'[cacheStep'.m.id].is_published)]_vars

C18_DifferentReadsDifferentEntries ==
  [][(/\ cacheStep.kind = "read" /\ cacheStep'.kind = "read"
      /\ <<cacheStep.m.op, cacheStep.m.id>> # <<cacheStep'.m.op, cacheStep'.m.id>>)
       => cacheStep.key # cacheStep'.key]_vars

HasNotice(seq, n) == \E i \in DOMAIN seq : seq[i] = n

\* C19: every failed create, update, delete or publish shows a toast with
\* the server's error payload when there is one (its detail, or one toast
\* per field of a validation failure) and the operation's generic message
\* otherwise, and the request is not issued again.
C19_FailureShowsPayloadOrGeneric ==
  [][cacheStep'.kind = "mutationFailed" =>
       LET err == cacheStep'.error
           m == cacheStep'.m
       IN /\ notices' # <<>>
          /\ err.detail =>
               \E i \in DOMAIN notices' : notices'[i].kind = "detail"
          /\ err.errors # <<>> =>
               \A j \in DOMAIN err.errors :
                 HasNotice(notices', Notice("hook", "field", err.errors[j]))
          /\ (~err.detail /\ err.errors = <<>>) =>
               HasNotice(notices', Notice("hook", "generic", m.op))
          /\ m \notin mutations']_vars

\* C20: every 401 answer to a request made through apiClient starts the
\* navigation to /login, and the request is still rejected to its caller:
\* a query gets no data from it, a mutation runs onError and not onSuccess.
C20_UnauthorizedNavigatesToLogin ==
  [][(cacheStep'.kind \in {"queryFailed", "mutationFailed"}
        /\ cacheStep'.error.status = 401)
       => /\ navPending' = "/login"
          /\ IF cacheStep'.kind = "queryFailed"
               THEN /\ ~cache'[cacheStep'.key].fetching
                    /\ cache'[cacheStep'.key].data = cache[cacheStep'.key].data
               ELSE /\ HasNotice(notices', Notice("hook", "generic", cacheStep'.m.op))
                    /\ cache' = cache /\ server' = server]_vars

\* C20 witness: a delete was answered 401: the page is about to go to
\* /login and the hook's onError has shown its toast.
C20_Witness ==
  /\ cacheStep.kind = "mutationFailed" /\ cacheStep.m.op = "delete"
  /\ cacheStep.error.status = 401
  /\ navPending = "/login" /\ location = "/"
  /\ notices = <<Notice("hook", "generic", "delete")>>

\* C22: a request that runs into apiClient's timeout is rejected to its
\* caller and shows the interceptor's 'Cannot connect to server' toast, as
\* a request that got no response does.
C22_TimeoutLikeNetworkFailure ==
  [][(/\ cacheStep'.kind \in {"queryFailed", "mutationFailed"}
      /\ cacheStep'.error.code = "ECONNABORTED")
       => /\ HasNotice(notices',
                       Notice("interceptor", "Cannot connect to server", NONE))
          /\ cacheStep'.kind = "queryFailed" =>
               ~cache'[cacheStep'.key].fetching
          /\ cacheStep'.kind = "mutationFailed" =>
               cacheStep'.m \notin mutations']_vars

\* C23: when the backend answers the profile request of the provider's
\* session with 401, the forced navigations to /login come to an end: from
\* some point on no navigation is pending and no page load happens.
C23_UnauthorizedProfileSettles ==
  <>[](navPending = NULL /\ lastStep.kind # "load")

\* C24: when the provider rejects signIn or signUp, the session the catch
\* block leaves behind has isLoading false, or true only if it was true
\* before the call.
C24_RejectedSignStopsLoading ==
  [][\A c \in calls :
       (c \notin calls' /\ lastStep' = Step(c.op, c.who, "threw"))
         => (state'.isLoading => c.was)]_vars

\* C26: after a successful delete of id, from any call site, the cache
\* holds no detail entry for id.
C26_DeleteRemovesDetail ==
  [][(cacheStep'.kind = "mutationOk" /\ cacheStep'.m.op = "delete")
       => ~cache'[detail(cacheStep'.m.id)].present]_vars

\* C27: currentTenant is null or one of availableTenants.
C27_CurrentTenantIsAvailable ==
  currentTenant = NULL \/ InAvailable(currentTenant)

\* C27 witness: switchTenant has selected a tenant for a signed-in user.
C27_Witness ==
  /\ lastStep.kind = "switchTenant" /\ lastStep.outcome = "switched"
  /\ currentTenant # NULL /\ InAvailable(currentTenant)
  /\ state.isAuthenticated

\* C25: after a successful update or publish of a collection, its by-slug
\* detail entry, when there is one, holds the response or is invalidated.
C25_SlugEntryFollowsMutation ==
  [][(cacheStep'.kind = "mutationOk" /\ cacheStep'.m.op \in {"update", "publish"})
       => LET id == cacheStep'.m.id
              e == cache'[detailBySlug(slugOf[id])]
          IN e.present =>
               \/ e.invalidated
               \/ e.data = Collection(id, server'[id].is_published)]_vars

\* C21: when LoginForm navigates after a successful signIn, it goes to the
\* view the viewer was sent to sign-in from, and to '/' only when there was
\* none.
C21_SignInReturnsToRequestedView ==
  [][(router'.step = "loginPush" /\ router.step # "loginPush")
       => router'.path =
            (IF router.requested # NULL THEN router.requested ELSE Root)]_vars

\* C28: an auth route is not served to a viewer whose session is
\* authenticated.
C28_AuthRouteRedirectsAuthenticated ==
  (router.step = "served" /\ router.path \in authRoutes) => ~router.authed

\* C29: parseOrderDate(formatOrderDate(d)) = d for every valid ISO date d,
\* of the current year or of another.
C29_ParseInvertsFormat ==
  orderDate.step = "parsed" => orderDate.parsed = orderDate.iso

IndicesValid ==
  /\ showroom.selectedProductIndex \in 0..(Len(showroom.products) - 1)
  /\ showroom.selectedVariantIndex \in 0..(currentVariants(showroom) - 1)

\* C30 as stated: on every collection whose products each have at least
\* one variant, selectedProductIndex is within [0, products.length - 1] and
\* selectedVariantIndex is an index of the selected product's variants.
C30_IndicesAlwaysValid == IndicesValid

\* C30: on a collection with at least one product, each with at least one
\* variant, selectedProductIndex stays within [0, products.length - 1] and
\* selectedVariantIndex is an index of the selected product's variants.
C30_IndicesValidWhenNotEmpty ==
  Len(showroom.products) > 0 => IndicesValid

\* C30 witness: nextProduct moved from a product on which the second
\* variant was selectable to a product with a single variant.
C30_Witness ==
  /\ showroom.step = "nextProduct"
  /\ showroom.selectedProductIndex > 0
  /\ showroom.products[showroom.selectedProductIndex] > 1
  /\ currentVariants(showroom) = 1
  /\ showroom.selectedVariantIndex = 0

====
